---- MODULE Spec2Model ----
(***************************************************************************)
(* State-machine model of the screenshot service (src/server.ts) and of    *)
(* its security helpers (src/unnamed/part_002, imported as "./security").  *)
(*                                                                         *)
(* The server is a single-threaded event loop: every stretch of handler    *)
(* code between two `await`s runs atomically and is one action here.       *)
(***************************************************************************)
EXTENDS Integers, Sequences, FiniteSets, Bags, TLC

(***************************************************************************)
(* Bounds of the model (not program constants).                            *)
(***************************************************************************)
\* requests (screenshot or batch) that arrive during one behaviour
MaxReqs == 2
\* checkRateLimit calls during one behaviour of the rate limiter alone
MaxCalls == 4
\* tasks (screenshot handlers and batch items) in flight at the same time
MaxInFlight == 2
\* largest configured MAX_REQUESTS_PER_IP explored
MaxN == 2
\* clock advances during one behaviour
MaxTicks == 1
\* clock advances during one behaviour of the rate limiter alone
MaxRLTicks == 3
\* files in the directory that the sweep alone starts from
MaxSweepFiles == 3
\* requests and clock advances of the specification of the cache key
MaxKeyReqs == 2
MaxKeyTicks == 1
\* checkRateLimit calls and clock advances of the specification that keeps
\* the times of the admissions
MaxAdmitCalls == 5
MaxAdmitTicks == 3
\* requests of the specification of captureScreenshot
MaxCapReqs == 2
\* requests of the specification of captureScreenshot with fairness
MaxLiveReqs == 2

(***************************************************************************)
(* Program constants.                                                      *)
(***************************************************************************)
\* checkRateLimit: resetAt = now + 3600000
WindowMs == 3600000
\* /api/batch: urls.length > 10 is rejected
MaxBatchUrls == 10
\* CONFIG.MAX_FILE_AGE_DAYS default
MAX_FILE_AGE_DAYS == 7
\* CONFIG.MAX_STORAGE_GB default
MAX_STORAGE_GB == 10

DayMs == 24 * 60 * 60 * 1000

\* File sizes are counted in KiB (the sizes of the model are whole KiB), so
\* that the storage budget 10 * 1024^3 becomes a number of 32 bits.
KiBPerGiB == 1024 * 1024

\* freed / (1024 * 1024) gives MB from bytes: 1024 KiB are one MB
KiBPerMiB == 1024

Clients == {"ip1", "ip2"}

(***************************************************************************)
(* URLs.  A URL string is represented by what `new URL(urlString)` makes   *)
(* of it: `parses` is FALSE when the constructor throws; hostname is the   *)
(* serialized host split at its separators ("." for names and IPv4, ":"    *)
(* for IPv6, which the URL parser serializes inside brackets); raw is the  *)
(* original string split into tokens, kept for the checks that look at     *)
(* urlString itself.                                                       *)
(***************************************************************************)
MkUrl(proto, sep, host, port, user, pass, path, raw, len) ==
    [parses |-> TRUE, protocol |-> proto, sep |-> sep, hostname |-> host,
     port |-> port, username |-> user, password |-> pass,
     pathname |-> path, raw |-> raw, length |-> len, hostlen |-> 11]

BadUrl ==
    [parses |-> FALSE, protocol |-> "", sep |-> ".", hostname |-> <<>>,
     port |-> "", username |-> "", password |-> "",
     pathname |-> <<>>, raw |-> <<"not a url">>, length |-> 9, hostlen |-> 0]

\* the URL strings that requests of the model carry
UrlIds == {"a", "priv", "bad"}

URL(u) ==
    CASE u = "a" ->
           MkUrl("https:", ".", <<"example", "com">>, "", "", "", <<"", "">>,
                 <<"https:", "//", "example.com", "/">>, 20)
      [] u = "priv" ->
           MkUrl("http:", ".", <<"127", "0", "0", "1">>, "", "", "", <<"", "">>,
                 <<"http:", "//", "127.0.0.1", "/">>, 17)
      [] OTHER -> BadUrl

\* the value of a missing `url` parameter (null)
NoUrl == "none"

(***************************************************************************)
(* isUrlSafe (security module).                                            *)
(***************************************************************************)
Unsafe(reason) == [safe |-> FALSE, reason |-> reason]

Safe == [safe |-> TRUE, reason |-> ""]

PrivateOctets2 ==
    {"16", "17", "18", "19", "20", "21", "22", "23", "24", "25", "26", "27",
     "28", "29", "30", "31"}

\* blockedPatterns, tested against url.hostname.toLowerCase()
HostBlocked(sep, h) ==
    LET dotted(n) == sep = "." /\ Len(h) >= n
        colons(n) == sep = ":" /\ Len(h) >= n
    IN  \/ sep = "." /\ h = <<"localhost">>
        \/ dotted(2) /\ h[1] = "127"
        \/ dotted(2) /\ h[1] = "0"
        \/ dotted(2) /\ h[1] = "10"
        \/ dotted(3) /\ h[1] = "172" /\ h[2] \in PrivateOctets2
        \/ dotted(3) /\ h[1] = "192" /\ h[2] = "168"
        \/ dotted(3) /\ h[1] = "169" /\ h[2] = "254"
        \/ sep = ":" /\ h = <<"", "", "1">>
        \/ colons(2) /\ h[1] = "fc00"
        \/ colons(2) /\ h[1] = "fe80"
        \/ sep = "." /\ h = <<"metadata", "google", "internal">>
        \/ sep = "." /\ h = <<"169", "254", "169", "254">>

BlockedPorts ==
    {"22", "23", "25", "110", "143", "445", "1433", "3306", "3389", "5432",
     "6379", "27017"}

\* suspiciousPatterns, case-insensitive, tested against urlString
SuspiciousTokens ==
    {"javascript:", "data:", "vbscript:", "file:", "about:",
     "JAVASCRIPT:", "DATA:", "VBSCRIPT:", "FILE:", "ABOUT:"}

TraversalSegments == {"..", "a..b", "%2e%2e", "%252e%252e", "%252e"}

\* Faulty variant of isUrlSafe: the port is checked before the host.
isUrlSafePortFirst(url) ==
    IF ~url.parses THEN Unsafe("Invalid URL format")
    ELSE IF url.protocol \notin {"http:", "https:"}
        THEN Unsafe("Only HTTP and HTTPS protocols allowed")
    ELSE IF url.port # "" /\ url.port \in BlockedPorts
        THEN Unsafe("Access to sensitive ports is blocked")
    ELSE IF HostBlocked(url.sep, url.hostname)
        THEN Unsafe("Access to private networks and cloud metadata endpoints is blocked")
    ELSE IF url.username # "" \/ url.password # ""
        THEN Unsafe("URLs with credentials are not allowed")
    ELSE IF \E i \in 1..Len(url.raw) : url.raw[i] \in SuspiciousTokens
        THEN Unsafe("Suspicious URL scheme detected")
    ELSE IF \E i \in 1..Len(url.pathname) : url.pathname[i] \in TraversalSegments
        THEN Unsafe("Path traversal detected")
    ELSE IF url.hostlen > 253 \/ url.length > 2048
        THEN Unsafe("URL too long")
    ELSE Safe

isUrlSafe(url) ==
    IF ~url.parses THEN Unsafe("Invalid URL format")
    ELSE IF url.protocol \notin {"http:", "https:"}
        THEN Unsafe("Only HTTP and HTTPS protocols allowed")
    ELSE IF HostBlocked(url.sep, url.hostname)
        THEN Unsafe("Access to private networks and cloud metadata endpoints is blocked")
    ELSE IF url.port # "" /\ url.port \in BlockedPorts
        THEN Unsafe("Access to sensitive ports is blocked")
    ELSE IF url.username # "" \/ url.password # ""
        THEN Unsafe("URLs with credentials are not allowed")
    ELSE IF \E i \in 1..Len(url.raw) : url.raw[i] \in SuspiciousTokens
        THEN Unsafe("Suspicious URL scheme detected")
    ELSE IF \E i \in 1..Len(url.pathname) : url.pathname[i] \in TraversalSegments
        THEN Unsafe("Path traversal detected")
    ELSE IF url.hostlen > 253 \/ url.length > 2048
        THEN Unsafe("URL too long")
    ELSE Safe

(***************************************************************************)
(* new URL(urlString).  A URL string is given by its parts as they were    *)
(* typed: the scheme, the host (a name as labels in `host`, or in `addr`   *)
(* an IPv4 address as numbers or an IPv6 address between brackets as       *)
(* 16-bit pieces with -1 for the "::" gap), the port, the credentials, the *)
(* path segments and one token of the query.  NewURL is what the URL       *)
(* parser makes of it: the scheme and the host are put in lower case, an   *)
(* IPv4 address is written as four decimal numbers, an IPv6 address is     *)
(* written in hexadecimal between brackets, and ".." segments are          *)
(* resolved.                                                               *)
(***************************************************************************)
Digit(d) ==
    CASE d = 0 -> "0" [] d = 1 -> "1" [] d = 2 -> "2" [] d = 3 -> "3"
      [] d = 4 -> "4" [] d = 5 -> "5" [] d = 6 -> "6" [] d = 7 -> "7"
      [] d = 8 -> "8" [] d = 9 -> "9" [] d = 10 -> "a" [] d = 11 -> "b"
      [] d = 12 -> "c" [] d = 13 -> "d" [] d = 14 -> "e" [] OTHER -> "f"

RECURSIVE Numeral(_, _)
Numeral(n, base) ==
    IF n < base THEN Digit(n)
    ELSE Numeral(n \div base, base) \o Digit(n % base)

ToLowerCase(w) ==
    CASE w = "LOCALHOST" -> "localhost"
      [] w = "Metadata" -> "metadata"
      [] w = "HTTP:" -> "http:"
      [] w = "JavaScript:" -> "javascript:"
      [] OTHER -> w

\* a.b is read as a.0.0.b
SerializeIPv4(h) ==
    LET quad == IF Len(h) = 2 THEN <<h[1], 0, 0, h[2]>> ELSE h
    IN  [i \in 1..4 |-> Numeral(quad[i], 10)]

\* the pieces joined by ":" between "[" and "]", seen as the parts that the
\* ":" separate: "[::1]" is "[", "" and "1]"
SerializeIPv6(h) ==
    IF h[1] = -1
        THEN <<"[", "">> \o [i \in 1..(Len(h) - 1) |->
                 IF i = Len(h) - 1 THEN Numeral(h[i + 1], 16) \o "]"
                 ELSE Numeral(h[i + 1], 16)]
    ELSE [i \in 1..Len(h) |->
            IF h[i] = -1 THEN ""
            ELSE IF i = 1 THEN "[" \o Numeral(h[i], 16)
            ELSE IF i = Len(h) THEN Numeral(h[i], 16) \o "]"
            ELSE Numeral(h[i], 16)]

DoubleDots == {"..", "%2e%2e", "%2E%2E"}

\* the path after the parser has resolved its ".." segments, as
\* pathname.split("/") gives it
RECURSIVE ResolveDots(_, _)
ResolveDots(segs, out) ==
    IF segs = <<>> THEN out
    ELSE IF Head(segs) \in DoubleDots
        THEN ResolveDots(Tail(segs),
                         IF out = <<>> THEN out ELSE SubSeq(out, 1, Len(out) - 1))
    ELSE ResolveDots(Tail(segs), Append(out, Head(segs)))

Pathname(segs) ==
    LET out == ResolveDots(segs, <<>>)
    IN  IF out = <<>> THEN <<"", "">> ELSE <<"">> \o out

SpecialSchemes == {"http:", "https:", "ftp:"}

NewURL(s) ==
    LET proto == ToLowerCase(s.scheme)
        raw == <<s.scheme>> \o s.path \o <<s.query>>
    IN  IF proto = "" \/ (proto \in SpecialSchemes /\ s.kind = "none")
            THEN [BadUrl EXCEPT !.raw = raw]
        ELSE IF proto \notin SpecialSchemes
            THEN [MkUrl(proto, ".", <<>>, "", "", "", s.path, raw, 20)
                     EXCEPT !.hostlen = 0]
        ELSE [MkUrl(proto,
                    IF s.kind = "ipv6" THEN ":" ELSE ".",
                    CASE s.kind = "ipv4" -> SerializeIPv4(s.addr)
                      [] s.kind = "ipv6" -> SerializeIPv6(s.addr)
                      [] OTHER -> [i \in 1..Len(s.host) |-> ToLowerCase(s.host[i])],
                    s.port, s.user, s.pass, Pathname(s.path), raw,
                    IF s.long THEN 2049 ELSE 20)
                 EXCEPT !.hostlen = IF s.longHost THEN 254 ELSE 11]

(***************************************************************************)
(* validateScreenshotParams (security module).  `p.x && (...)` skips the   *)
(* range test of a falsy x: 0 and NaN for a number, "" for a string.       *)
(***************************************************************************)
\* the value parseInt gives for text that is no number; it is no valid
\* value of any parameter, and every comparison with it is false
NaN == -999999999

Truthy(x) == x # NaN /\ x # 0

\* a JavaScript comparison with NaN is false
OutOfRange(x, lo, hi) == x # NaN /\ (x < lo \/ x > hi)

Formats == {"webp", "png", "jpeg", "jpg"}

Invalid(reason) == [valid |-> FALSE, reason |-> reason]

validateScreenshotParams(p) ==
    IF Truthy(p.width) /\ OutOfRange(p.width, 320, 3840)
        THEN Invalid("Width must be between 320 and 3840")
    ELSE IF Truthy(p.height) /\ OutOfRange(p.height, 240, 2160)
        THEN Invalid("Height must be between 240 and 2160")
    ELSE IF Truthy(p.delay) /\ OutOfRange(p.delay, 0, 10000)
        THEN Invalid("Delay must be between 0 and 10000ms")
    ELSE IF Truthy(p.quality) /\ OutOfRange(p.quality, 1, 100)
        THEN Invalid("Quality must be between 1 and 100")
    ELSE IF p.format # "" /\ p.format \notin Formats
        THEN Invalid("Format must be webp, png, or jpeg")
    ELSE [valid |-> TRUE, reason |-> ""]

(***************************************************************************)
(* checkRateLimit.  The table maps a client to its window, or to NoLimit   *)
(* when rateLimitMap.get(ip) is undefined.  The result is the pair         *)
(* (admitted, table after the call).                                       *)
(***************************************************************************)
NoLimit == [count |-> 0, resetAt |-> -1]

\* Faulty variant of WindowExpired: the window ends a millisecond after it
\* was set.
WindowExpiredEarly(limit, now) ==
    limit = NoLimit \/ now > limit.resetAt - WindowMs

\* if (!limit || now > limit.resetAt)
WindowExpired(limit, now) == limit = NoLimit \/ now > limit.resetAt

\* Faulty variant of LimitReached: one request too many is let through.
LimitReachedOver(limit, max) == limit.count > max

\* if (limit.count >= CONFIG.MAX_REQUESTS_PER_IP) return false
LimitReached(limit, max) == limit.count >= max

\* Faulty variant of checkRateLimit: a rejected request is counted too.
checkRateLimitCounting(cfg, map, ip, now) ==
    IF ~cfg.ENABLE_RATE_LIMIT THEN [ok |-> TRUE, map |-> map]
    ELSE IF WindowExpired(map[ip], now)
        THEN [ok |-> TRUE,
              map |-> [map EXCEPT ![ip] = [count |-> 1, resetAt |-> now + WindowMs]]]
    ELSE IF LimitReached(map[ip], cfg.MAX_REQUESTS_PER_IP)
        THEN [ok |-> FALSE, map |-> [map EXCEPT ![ip].count = @ + 1]]
    ELSE [ok |-> TRUE, map |-> [map EXCEPT ![ip].count = @ + 1]]

checkRateLimit(cfg, map, ip, now) ==
    IF ~cfg.ENABLE_RATE_LIMIT THEN [ok |-> TRUE, map |-> map]
    ELSE IF WindowExpired(map[ip], now)
        THEN [ok |-> TRUE,
              map |-> [map EXCEPT ![ip] = [count |-> 1, resetAt |-> now + WindowMs]]]
    ELSE IF LimitReached(map[ip], cfg.MAX_REQUESTS_PER_IP)
        THEN [ok |-> FALSE, map |-> map]
    ELSE [ok |-> TRUE, map |-> [map EXCEPT ![ip].count = @ + 1]]

(***************************************************************************)
(* getImageFilename: the md5 digest of the six fields joined by ":" is     *)
(* represented by the tuple of the fields themselves (distinct inputs give *)
(* distinct digests), followed by the format as the file extension.        *)
(***************************************************************************)
getImageFilename(url, width, height, dark, format, fullPage) ==
    <<url, width, height, dark, format, fullPage, format>>


(***************************************************************************)
(* The /api/screenshot handler's parameter parsing (GET branch).  A query  *)
(* is given by what parseInt makes of its numeric parameters.              *)
(***************************************************************************)
MathMax(x, lo) == IF x = NaN THEN NaN ELSE IF x < lo THEN lo ELSE x

MathMin(x, hi) == IF x = NaN THEN NaN ELSE IF x > hi THEN hi ELSE x

ParseRequest(q) ==
    [width   |-> MathMin(MathMax(q.width, 320), 3840),
     height  |-> MathMin(MathMax(q.height, 240), 2160),
     dark    |-> q.dark,
     quality |-> MathMin(MathMax(q.quality, 1), 100),
     format  |-> IF q.format \in Formats THEN q.format ELSE "webp",
     fullPage |-> q.fullPage,
     delay   |-> MathMin(q.delay, 10000)]

DefaultQuery ==
    [width |-> 1200, height |-> 630, dark |-> FALSE, quality |-> 80,
     format |-> "webp", fullPage |-> FALSE, delay |-> 0, waitFor |-> "",
     userAgent |-> "", crop |-> ""]

\* the queries that requests of the model carry
Queries == {DefaultQuery, [DefaultQuery EXCEPT !.delay = -1]}

CacheControls == {"default", "refresh", "only"}


(***************************************************************************)
(* State.                                                                  *)
(***************************************************************************)
VARIABLES
    CONFIG,        \* the environment's configuration, fixed at start
    now,           \* Date.now()
    ticks,         \* clock advances so far
    rateLimitMap,  \* client -> window
    stats,         \* usage counters
    files,         \* IMAGES_DIR: filename -> [bytes, mtime]
    inflight,      \* the handlers suspended at an await (a bag)
    arrived,       \* requests arrived so far
    req,           \* the request received by the last step, NoReq when none
    resp,          \* the response sent by the last step, NoResp when none
    winCalls,      \* client -> checkRateLimit calls since its window was set
    browser,       \* the module's `browser`: NoBrowser (null) or an instance
    launches,      \* browser instances launched so far
    pages,         \* the pages that are open
    admissions     \* client -> the times at which checkRateLimit admitted it

vars ==
    <<CONFIG, now, ticks, rateLimitMap, stats, files, inflight, arrived,
      req, resp, winCalls, browser, launches, pages, admissions>>

\* the browser and its pages
chromium == <<browser, launches, pages>>

NoBrowser == 0

NoAdmissions == [c \in Clients |-> <<>>]

\* The configurations explored: rate limiting on and off, with a maximum from
\* the given set; S3 upload and auto cleanup both on or both off (the two are
\* independent, and a disabled feature only removes behaviour).
ConfigsWith(maxes) ==
    {c \in [ENABLE_RATE_LIMIT : BOOLEAN, MAX_REQUESTS_PER_IP : maxes,
            S3_ENABLED : BOOLEAN, AUTO_CLEANUP_ENABLED : BOOLEAN] :
        c.S3_ENABLED = c.AUTO_CLEANUP_ENABLED}

NoFilename == <<>>

NoBytes == [raw |-> 0, format |-> "", quality |-> 0]

EmptyDir == [f \in {} |-> NoBytes]

NoResp ==
    [kind |-> "none", status |-> 0, cache |-> "", filename |-> NoFilename,
     cached |-> FALSE, body |-> NoBytes, s3Url |-> FALSE, failedAt |-> "",
     results |-> <<>>]

NoReq ==
    [kind |-> "none", ip |-> "", url |-> "", cache |-> "", urls |-> <<>>,
     filename |-> NoFilename, p |-> <<>>]

InitWith(configs) ==
    /\ CONFIG \in configs
    /\ now = 0
    /\ ticks = 0
    /\ rateLimitMap = [c \in Clients |-> NoLimit]
    /\ stats = [totalRequests |-> 0, cacheHits |-> 0, cacheMisses |-> 0,
                errors |-> 0, uploadedToS3 |-> 0]
    /\ files = EmptyDir
    /\ inflight = EmptyBag
    /\ arrived = 0
    /\ req = NoReq
    /\ resp = NoResp
    /\ winCalls = [c \in Clients |-> 0]
    /\ browser = NoBrowser
    /\ launches = 0
    /\ pages = {}
    /\ admissions = NoAdmissions

Init == InitWith(ConfigsWith({1}))

existsSync(fs, filename) == filename \in DOMAIN fs

\* f with key k set to v, k added to the domain when new
Put(f, k, v) == [x \in DOMAIN f \cup {k} |-> IF x = k THEN v ELSE f[x]]

\* f without key k
Drop(f, k) == [x \in DOMAIN f \ {k} |-> f[x]]

One(r) == SetToBag({r})

Suspended == BagToSet(inflight)

\* handler r suspends, resumes as r2, or ends
Suspend(r) == inflight (+) One(r)

Resume(r, r2) == (inflight (-) One(r)) (+) One(r2)

End(r) == inflight (-) One(r)

Bump(counter) == [stats EXCEPT ![counter] = @ + 1]

\* the clock advances between events
Tick(d) ==
    /\ ticks' = ticks + 1
    /\ now' = now + d
    /\ req' = NoReq
    /\ resp' = NoResp
    /\ UNCHANGED <<chromium, admissions>>
    /\ UNCHANGED <<CONFIG, rateLimitMap, stats, files, inflight, arrived,
                   winCalls>>

(***************************************************************************)
(* /api/screenshot.                                                        *)
(***************************************************************************)
Resp(kind, status, cache, filename, cached, body, s3Url, failedAt, results) ==
    [kind |-> kind, status |-> status, cache |-> cache,
     filename |-> filename, cached |-> cached, body |-> body, s3Url |-> s3Url,
     failedAt |-> failedAt, results |-> results]

\* Faulty variant of ShouldUseCache: the refresh directive is ignored.
ShouldUseCacheAlways(cc) == TRUE

\* const shouldUseCache = cacheControl !== "refresh"
ShouldUseCache(cc) == cc # "refresh"

\* Faulty variant of OnlyMiss: the 404 of cache=only is left out.
OnlyMissNever(cc, cached) == FALSE

\* if (cacheControl === "only" && !cached) return 404
OnlyMiss(cc, cached) == cc = "only" /\ ~cached

\* Faulty variant of RequestFilename: the quality is part of the key.
RequestFilenameWithQuality(u, p) ==
    <<u, p.width, p.height, p.dark, p.format, p.fullPage, p.quality, p.format>>

\* const filename = getImageFilename(targetUrl, width, height, dark, format,
\* fullPage)
RequestFilename(u, p) ==
    getImageFilename(u, p.width, p.height, p.dark, p.format, p.fullPage)

\* The handler from its entry to its first await or early return: the
\* status it returns at once (0 when it goes on), where it suspends, and the
\* filename and the cache decision once computed.
ScreenshotSync(rl, fs, u, q, cc) ==
    LET p == ParseRequest(q)
        filename == RequestFilename(u, p)
        cached == ShouldUseCache(cc) /\ existsSync(fs, filename)
        early(status) ==
            [status |-> status, pc |-> "done",
             filename |-> NoFilename, cached |-> FALSE, p |-> p]
    IN  IF ~rl.ok THEN early(429)
        ELSE IF u = NoUrl THEN early(400)
        ELSE IF ~isUrlSafe(URL(u)).safe THEN early(403)
        ELSE IF ~validateScreenshotParams(p).valid THEN early(400)
        ELSE IF OnlyMiss(cc, cached)
            THEN [status |-> 404, pc |-> "done",
                  filename |-> filename, cached |-> cached, p |-> p]
        ELSE [status |-> 0, pc |-> IF cached THEN "read" ELSE "render",
              filename |-> filename, cached |-> cached, p |-> p]

\* Faulty variant of CountLookup: a hit is counted as a miss as well.
CountLookupBoth(s, cached) ==
    IF cached
        THEN [s EXCEPT !.cacheHits = @ + 1, !.cacheMisses = @ + 1]
        ELSE [s EXCEPT !.cacheMisses = @ + 1]

\* if (cached) { stats.cacheHits++ ... } else { stats.cacheMisses++ ... }
CountLookup(s, cached) ==
    IF cached
        THEN [s EXCEPT !.cacheHits = @ + 1]
        ELSE [s EXCEPT !.cacheMisses = @ + 1]

ScreenshotArrive(ip, u, q, cc, up) ==
    /\ LET rl == checkRateLimit(CONFIG, rateLimitMap, ip, now)
           r == ScreenshotSync(rl, files, u, q, cc)
           counted == [stats EXCEPT !.totalRequests = @ + 1]
       IN  /\ arrived' = arrived + 1
           /\ req' = [kind |-> "screenshot", ip |-> ip, url |-> u, cache |-> cc,
                      urls |-> <<>>, filename |-> r.filename, p |-> r.p]
           /\ rateLimitMap' = rl.map
           /\ winCalls' =
                IF ~CONFIG.ENABLE_RATE_LIMIT THEN winCalls
                ELSE IF rateLimitMap[ip] = NoLimit \/ now > rateLimitMap[ip].resetAt
                    THEN [winCalls EXCEPT ![ip] = 1]
                ELSE [winCalls EXCEPT ![ip] = @ + 1]
           /\ IF r.pc = "done"
                THEN /\ stats' = counted
                     /\ resp' = Resp("screenshot", r.status, cc, r.filename,
                                         r.cached, NoBytes, FALSE, "", <<>>)
                     /\ inflight' = inflight
                ELSE /\ stats' = CountLookup(counted, r.cached)
                     /\ inflight' =
                          Suspend([kind |-> "screenshot", ip |-> ip, cache |-> cc,
                                   upload |-> up /\ CONFIG.S3_ENABLED /\ ~r.cached,
                                   url |-> u, width |-> r.p.width,
                                   height |-> r.p.height, dark |-> r.p.dark,
                                   fullPage |-> r.p.fullPage,
                                   format |-> r.p.format, quality |-> r.p.quality,
                                   filename |-> r.filename, pc |-> r.pc,
                                   raw |-> 0, buf |-> NoBytes])
                     /\ resp' = NoResp
    /\ UNCHANGED chromium
    /\ UNCHANGED <<CONFIG, now, ticks, files>>

IsShot(r, pc) ==
    /\ r \in Suspended
    /\ r.kind = "screenshot"
    /\ r.pc = pc

\* the catch block: stats.errors++, status 500
ShotFail(r, at) ==
    /\ req' = NoReq
    /\ stats' = Bump("errors")
    /\ resp' = Resp("screenshot", 500, r.cache, r.filename, r.pc = "read",
                        NoBytes, FALSE, at, <<>>)
    /\ inflight' = End(r)

\* the response after the hit or the miss branch
ShotRespond(r, body, s3Url) ==
    /\ req' = NoReq
    /\ resp' = Resp("screenshot", 200, r.cache, r.filename, r.pc = "read", body,
                        s3Url, "", <<>>)
    /\ inflight' = End(r)

\* imageBuffer = Buffer.from(await Bun.file(filepath).arrayBuffer())
ShotRead(r) ==
    /\ IsShot(r, "read")
    /\ IF existsSync(files, r.filename)
         THEN /\ ShotRespond(r, files[r.filename].bytes, FALSE)
              /\ stats' = stats
         ELSE ShotFail(r, "read")
    /\ UNCHANGED <<chromium, admissions>>
    /\ UNCHANGED <<CONFIG, now, ticks, rateLimitMap, files, arrived, winCalls>>

\* what the page shows when it is captured
PageVersions == {1, 2}

\* await captureScreenshot(...) returns
ShotRenderOk(r, raw) ==
    /\ IsShot(r, "render")
    /\ inflight' = Resume(r, [r EXCEPT !.pc = "encode", !.raw = raw])
    /\ req' = NoReq
    /\ resp' = NoResp
    /\ UNCHANGED <<chromium, admissions>>
    /\ UNCHANGED <<CONFIG, now, ticks, rateLimitMap, stats, files, arrived,
                   winCalls>>

\* await captureScreenshot(...) throws (navigation failure or timeout)
ShotRenderFail(r) ==
    /\ IsShot(r, "render")
    /\ ShotFail(r, "render")
    /\ UNCHANGED <<chromium, admissions>>
    /\ UNCHANGED <<CONFIG, now, ticks, rateLimitMap, files, arrived, winCalls>>

\* processImage: the encoded bytes are a function of the raw capture, the
\* format and the quality
processImage(raw, format, quality) ==
    [raw |-> raw, format |-> format, quality |-> quality]

ShotEncodeOk(r) ==
    /\ IsShot(r, "encode")
    /\ inflight' =
         Resume(r, [r EXCEPT !.pc = "write", !.raw = 0,
                             !.buf = processImage(r.raw, r.format, r.quality)])
    /\ req' = NoReq
    /\ resp' = NoResp
    /\ UNCHANGED <<chromium, admissions>>
    /\ UNCHANGED <<CONFIG, now, ticks, rateLimitMap, stats, files, arrived,
                   winCalls>>

\* Faulty variant of ShotEncodeFail: the bytes encoded so far are stored
\* before the failure is reported.
ShotEncodeFailPartial(r) ==
    /\ IsShot(r, "encode")
    /\ ShotFail(r, "encode")
    /\ files' = Put(files, r.filename, [bytes |-> NoBytes, mtime |-> now])
    /\ UNCHANGED <<chromium, admissions>>
    /\ UNCHANGED <<CONFIG, now, ticks, rateLimitMap, arrived, winCalls>>

\* processImage throws
ShotEncodeFail(r) ==
    /\ IsShot(r, "encode")
    /\ ShotFail(r, "encode")
    /\ UNCHANGED <<chromium, admissions>>
    /\ UNCHANGED <<CONFIG, now, ticks, rateLimitMap, files, arrived, winCalls>>

\* Faulty variant of Write: a file that exists is left as it is.
WriteIfAbsent(fs, filename, bytes, t) ==
    IF filename \in DOMAIN fs THEN fs
    ELSE [x \in DOMAIN fs \cup {filename} |->
            IF x = filename THEN [bytes |-> bytes, mtime |-> t] ELSE fs[x]]

\* Bun.write(filepath, bytes): the whole file is replaced.  The write is
\* taken to succeed: the store's write is total in the specification, and the
\* code has no handling of its own for a write that fails.
Write(fs, filename, bytes, t) == Put(fs, filename, [bytes |-> bytes, mtime |-> t])

\* await Bun.write(filepath, imageBuffer) returns; then the upload starts
\* when it was asked for and S3 is enabled, and else the response is sent
ShotWriteOk(r) ==
    /\ IsShot(r, "write")
    /\ files' = Write(files, r.filename, r.buf, now)
    /\ IF r.upload
         THEN /\ inflight' = Resume(r, [r EXCEPT !.pc = "upload"])
              /\ req' = NoReq
              /\ resp' = NoResp
         ELSE ShotRespond(r, r.buf, FALSE)
    /\ UNCHANGED <<chromium, admissions>>
    /\ UNCHANGED <<CONFIG, now, ticks, rateLimitMap, stats, arrived, winCalls>>

\* s3Url = await uploadToS3(...) returns: stats.uploadedToS3++
ShotUploadOk(r) ==
    /\ IsShot(r, "upload")
    /\ stats' = Bump("uploadedToS3")
    /\ ShotRespond(r, r.buf, TRUE)
    /\ UNCHANGED <<chromium, admissions>>
    /\ UNCHANGED <<CONFIG, now, ticks, rateLimitMap, files, arrived, winCalls>>

\* await uploadToS3(...) throws inside the handler's try block
ShotUploadFail(r) ==
    /\ IsShot(r, "upload")
    /\ ShotFail(r, "upload")
    /\ UNCHANGED <<chromium, admissions>>
    /\ UNCHANGED <<CONFIG, now, ticks, rateLimitMap, files, arrived, winCalls>>

(***************************************************************************)
(* /api/batch.                                                             *)
(***************************************************************************)
\* the bodies that batch requests of the model carry
Batches ==
    {<<>>, <<"a">>, <<"a", "a">>, <<"a", "priv">>,
     [i \in 1..(MaxBatchUrls + 1) |-> "a"]}

BatchFilename(u) == getImageFilename(u, 1200, 630, FALSE, "webp", FALSE)

\* Faulty variant of BatchSync: the check of the number of URLs is left out.
BatchSyncAnySize(urls) ==
    IF Len(urls) = 0 THEN 400
    ELSE IF \E i \in 1..Len(urls) : ~isUrlSafe(URL(urls[i])).safe THEN 403
    ELSE 0

\* the body's checks: the status returned at once, or 0 to go on
BatchSync(urls) ==
    IF Len(urls) = 0 THEN 400
    ELSE IF Len(urls) > MaxBatchUrls THEN 400
    ELSE IF \E i \in 1..Len(urls) : ~isUrlSafe(URL(urls[i])).safe THEN 403
    ELSE 0

\* urls.map(async ...): every item runs up to its first await at once
BatchItems(fs, urls) ==
    [i \in 1..Len(urls) |->
        [filename |-> BatchFilename(urls[i]),
         pc |-> IF existsSync(fs, BatchFilename(urls[i])) THEN "cached" ELSE "render",
         raw |-> 0, buf |-> NoBytes]]

BatchArrive(ip, urls) ==
    /\ arrived' = arrived + 1
    /\ req' = [kind |-> "batch", ip |-> ip, url |-> "", cache |-> "", urls |-> urls,
               filename |-> NoFilename, p |-> <<>>]
    /\ IF BatchSync(urls) # 0
         THEN /\ resp' = Resp("batch", BatchSync(urls), "", NoFilename,
                                  FALSE, NoBytes, FALSE, "", <<>>)
              /\ inflight' = inflight
         ELSE /\ inflight' = Suspend([kind |-> "batch", ip |-> ip,
                                      items |-> BatchItems(files, urls)])
              /\ resp' = NoResp
    /\ UNCHANGED <<chromium, admissions>>
    /\ UNCHANGED <<CONFIG, now, ticks, rateLimitMap, stats, files, winCalls>>

IsItem(r, i, pc) ==
    /\ r \in Suspended
    /\ r.kind = "batch"
    /\ i \in 1..Len(r.items)
    /\ r.items[i].pc = pc

BatchRenderOk(r, i, raw) ==
    /\ IsItem(r, i, "render")
    /\ inflight' = Resume(r, [r EXCEPT !.items[i].pc = "encode",
                                       !.items[i].raw = raw])
    /\ req' = NoReq
    /\ resp' = NoResp
    /\ UNCHANGED <<chromium, admissions>>
    /\ UNCHANGED <<CONFIG, now, ticks, rateLimitMap, stats, files, arrived,
                   winCalls>>

\* the item's promise rejects; Promise.allSettled records it
BatchItemFail(r, i, pc) ==
    /\ IsItem(r, i, pc)
    /\ inflight' = Resume(r, [r EXCEPT !.items[i].pc = "failed",
                                       !.items[i].raw = 0,
                                       !.items[i].buf = NoBytes])
    /\ req' = NoReq
    /\ resp' = NoResp
    /\ UNCHANGED <<chromium, admissions>>
    /\ UNCHANGED <<CONFIG, now, ticks, rateLimitMap, stats, files, arrived,
                   winCalls>>

BatchEncodeOk(r, i) ==
    /\ IsItem(r, i, "encode")
    /\ inflight' =
         Resume(r, [r EXCEPT !.items[i].pc = "write", !.items[i].raw = 0,
                             !.items[i].buf = processImage(r.items[i].raw, "webp", 80)])
    /\ req' = NoReq
    /\ resp' = NoResp
    /\ UNCHANGED <<chromium, admissions>>
    /\ UNCHANGED <<CONFIG, now, ticks, rateLimitMap, stats, files, arrived,
                   winCalls>>

BatchWriteOk(r, i) ==
    /\ IsItem(r, i, "write")
    /\ files' = Write(files, r.items[i].filename, r.items[i].buf, now)
    /\ inflight' = Resume(r, [r EXCEPT !.items[i].pc = "ok",
                                       !.items[i].buf = NoBytes])
    /\ req' = NoReq
    /\ resp' = NoResp
    /\ UNCHANGED <<chromium, admissions>>
    /\ UNCHANGED <<CONFIG, now, ticks, rateLimitMap, stats, arrived,
                   winCalls>>

Settled(item) == item.pc \in {"cached", "ok", "failed"}

\* Promise.allSettled resolves: one result per URL, status 200
BatchRespond(r) ==
    /\ r \in Suspended
    /\ r.kind = "batch"
    /\ \A i \in 1..Len(r.items) : Settled(r.items[i])
    /\ req' = NoReq
    /\ resp' =
         Resp("batch", 200, "", NoFilename, FALSE, NoBytes, FALSE, "",
              [i \in 1..Len(r.items) |->
                 [success |-> r.items[i].pc # "failed",
                  cached |-> r.items[i].pc = "cached"]])
    /\ inflight' = End(r)
    /\ UNCHANGED <<chromium, admissions>>
    /\ UNCHANGED <<CONFIG, now, ticks, rateLimitMap, stats, files, arrived,
                   winCalls>>

(***************************************************************************)
(* cleanupOldFiles, run by the hourly timer when AUTO_CLEANUP_ENABLED.     *)
(* It has no await: the whole sweep is one step.                           *)
(***************************************************************************)
\* stat.size of a stored file, in KiB
FileSize(bytes) == bytes.raw

\* Faulty variant of SortedListings: the sort is left out, the directory is
\* walked in any order.
UnsortedListings(fs) ==
    {o \in [1..Cardinality(DOMAIN fs) -> DOMAIN fs] :
        \A i, j \in DOMAIN o : i # j => o[i] # o[j]}

\* the directory listing sorted by mtime; files of equal mtime in any order
SortedListings(fs) ==
    {o \in [1..Cardinality(DOMAIN fs) -> DOMAIN fs] :
        /\ \A i, j \in DOMAIN o : i # j => o[i] # o[j]
        /\ \A i, j \in DOMAIN o : i < j => fs[o[i]].mtime <= fs[o[j]].mtime}

RECURSIVE SumSizes(_, _)
SumSizes(fs, names) ==
    IF names = {} THEN 0
    ELSE LET n == CHOOSE x \in names : TRUE
         IN  FileSize(fs[n].bytes) + SumSizes(fs, names \ {n})

\* Faulty variant of ShouldDelete: only the storage budget is looked at.
ShouldDeleteOverBudget(age, currentSize) ==
    currentSize > MAX_STORAGE_GB * KiBPerGiB

\* Faulty variant of ShouldDelete: only the age is looked at.
ShouldDeleteExpiredOnly(age, currentSize) ==
    age > MAX_FILE_AGE_DAYS * DayMs

\* const shouldDelete = age > maxAge || currentSize > maxSize
ShouldDelete(age, currentSize) ==
    \/ age > MAX_FILE_AGE_DAYS * DayMs
    \/ currentSize > MAX_STORAGE_GB * KiBPerGiB

RECURSIVE CleanupWalk(_, _, _, _, _, _, _)
CleanupWalk(listing, i, fs, t, currentSize, deleted, freed) ==
    IF i > Len(listing)
        THEN [files |-> fs, deleted |-> deleted, freed |-> freed]
    ELSE LET size == FileSize(fs[listing[i]].bytes)
             age == t - fs[listing[i]].mtime
         IN  IF ShouldDelete(age, currentSize)
                 THEN CleanupWalk(listing, i + 1, Drop(fs, listing[i]), t,
                                  currentSize - size, deleted + 1, freed + size)
                 ELSE CleanupWalk(listing, i + 1, fs, t, currentSize, deleted, freed)

cleanupOldFiles(fs, listing, t) ==
    CleanupWalk(listing, 1, fs, t, SumSizes(fs, DOMAIN fs), 0, 0)

\* freedMB = freed / (1024 * 1024), with freed in bytes: the quotient is kept
\* as a fraction of the freed KiB
FreedMB(freed) == [num |-> freed, den |-> KiBPerMiB]

\* the array the sweep walks: path, mtime and size of every file
StatListing(fs, listing) ==
    [i \in DOMAIN listing |->
        [path |-> listing[i], mtime |-> fs[listing[i]].mtime,
         size |-> FileSize(fs[listing[i]].bytes)]]

\* The timer's callback.  What the sweep returns, and the array it walked,
\* are kept in resp.results.
Sweep ==
    /\ CONFIG.AUTO_CLEANUP_ENABLED
    /\ \E listing \in SortedListings(files) :
         LET r == cleanupOldFiles(files, listing, now)
         IN  /\ files' = r.files
             /\ resp' = Resp("sweep", 0, "", NoFilename, FALSE, NoBytes, FALSE, "",
                             <<[deleted |-> r.deleted, freedMB |-> FreedMB(r.freed),
                                walked |-> StatListing(files, listing)]>>)
    /\ req' = NoReq
    /\ UNCHANGED <<chromium, admissions>>
    /\ UNCHANGED <<CONFIG, now, ticks, rateLimitMap, stats, inflight,
                   arrived, winCalls>>

(***************************************************************************)
(* The specification: requests of both kinds, the clock and the sweep.     *)
(***************************************************************************)
\* The screenshot requests of the model: every cache directive, with and
\* without upload, for a URL that passes the gate; and one request for each
\* way of ending at the gate (what such a request asks for beyond that is
\* never looked at).
ShotInputs ==
    {[url |-> "a", query |-> DefaultQuery, cache |-> cc, upload |-> up] :
        cc \in CacheControls, up \in BOOLEAN}
    \cup {[url |-> u, query |-> DefaultQuery, cache |-> "default", upload |-> FALSE] :
             u \in (UrlIds \cup {NoUrl}) \ {"a"}}
    \cup {[url |-> "a", query |-> q, cache |-> "default", upload |-> FALSE] :
             q \in Queries \ {DefaultQuery}}

Tasks(r) == IF r.kind = "batch" THEN Len(r.items) ELSE 1

RECURSIVE TasksIn(_)
TasksIn(rs) ==
    IF rs = {} THEN 0
    ELSE LET r == CHOOSE x \in rs : TRUE
         IN  CopiesIn(r, inflight) * Tasks(r) + TasksIn(rs \ {r})

CanArrive(n) == arrived < MaxReqs /\ TasksIn(Suspended) + n <= MaxInFlight

\* the items a batch can start: a batch of more than 10 URLs starts none
BatchTasks(urls) == IF Len(urls) > MaxBatchUrls THEN 0 ELSE Len(urls)

\* The clock of this specification jumps past the maximal file age.  No
\* handler is in flight that long (page.goto gives up after 30 s), so the
\* jump is taken between requests.
Next ==
    \/ \E d \in {MAX_FILE_AGE_DAYS * DayMs + 1} :
         ticks < MaxTicks /\ inflight = EmptyBag /\ Tick(d)
    \/ \E ip \in {"ip1"}, i \in ShotInputs :
         /\ CanArrive(1)
         /\ ScreenshotArrive(ip, i.url, i.query, i.cache, i.upload)
         /\ UNCHANGED admissions
    \/ \E r \in Suspended : ShotRead(r)
    \/ \E r \in Suspended, raw \in PageVersions : ShotRenderOk(r, raw)
    \/ \E r \in Suspended : ShotRenderFail(r)
    \/ \E r \in Suspended : ShotEncodeOk(r)
    \/ \E r \in Suspended : ShotEncodeFail(r)
    \/ \E r \in Suspended : ShotWriteOk(r)
    \/ \E r \in Suspended : ShotUploadOk(r)
    \/ \E r \in Suspended : ShotUploadFail(r)
    \/ \E ip \in {"ip1"}, urls \in Batches : CanArrive(BatchTasks(urls)) /\ BatchArrive(ip, urls)
    \/ \E r \in Suspended, i \in 1..MaxInFlight, raw \in PageVersions :
         BatchRenderOk(r, i, raw)
    \/ \E r \in Suspended, i \in 1..MaxInFlight, pc \in {"render", "encode"} :
         BatchItemFail(r, i, pc)
    \/ \E r \in Suspended, i \in 1..MaxInFlight : BatchEncodeOk(r, i)
    \/ \E r \in Suspended, i \in 1..MaxInFlight : BatchWriteOk(r, i)
    \/ \E r \in Suspended : BatchRespond(r)
    \/ Sweep

Spec == Init /\ [][Next]_vars

(***************************************************************************)
(* The rate limiter alone: requests that end at the gate, for every        *)
(* configured maximum, and a clock that passes the window.                 *)
(***************************************************************************)
InitRL == InitWith(ConfigsWith(0..MaxN))

NextRL ==
    \/ \E d \in {1, WindowMs} : ticks < MaxRLTicks /\ Tick(d)
    \/ \E ip \in Clients, u \in {NoUrl, "priv"} :
         /\ arrived < MaxCalls
         /\ ScreenshotArrive(ip, u, DefaultQuery, "default", FALSE)
         /\ UNCHANGED admissions

SpecRL == InitRL /\ [][NextRL]_vars

(***************************************************************************)
(* The rate limiter with the times of its admissions kept: rate limiting   *)
(* is on, the maximum is at least 1, and the clock advances by a           *)
(* millisecond or by a whole window, so that calls fall at the start of a  *)
(* window, at its last millisecond and just after it.                      *)
(***************************************************************************)
InitAdmit ==
    InitWith({c \in ConfigsWith(1..MaxN) : c.ENABLE_RATE_LIMIT /\ ~c.S3_ENABLED})

\* the request of ip is received; when checkRateLimit lets it pass, the time
\* is added to the admissions of ip
AdmitArrive(ip) ==
    /\ ScreenshotArrive(ip, NoUrl, DefaultQuery, "default", FALSE)
    /\ admissions' =
         IF checkRateLimit(CONFIG, rateLimitMap, ip, now).ok
             THEN [admissions EXCEPT ![ip] = Append(@, now)]
             ELSE admissions

NextAdmit ==
    \/ \E d \in {1, WindowMs} : ticks < MaxAdmitTicks /\ Tick(d)
    \/ \E ip \in Clients : arrived < MaxAdmitCalls /\ AdmitArrive(ip)

SpecAdmit == InitAdmit /\ [][NextAdmit]_vars

(***************************************************************************)
(* getBrowser and captureScreenshot, one await after another.  A call of   *)
(* captureScreenshot by a /api/screenshot handler is a frame in `inflight` *)
(* that holds the suspended handler (`of`), the place of the call in       *)
(* captureScreenshot (`at`), its local `browser` (`b`) and `page`, and     *)
(* whether the try block has thrown (`error`).  The calls that configure   *)
(* the page (setViewport to setRequestInterception) are one place,         *)
(* "setup", and extractMetadata and page.screenshot are one place,         *)
(* "screenshot".  A browser instance is named by its number among the      *)
(* instances launched.                                                     *)
(***************************************************************************)
IsCap(f, at) ==
    /\ f \in Suspended
    /\ f.kind = "capture"
    /\ f.at = at

\* a frame moves on; nothing is received or sent
CapResume(f, f2) ==
    /\ inflight' = Resume(f, f2)
    /\ req' = NoReq
    /\ resp' = NoResp
    /\ stats' = stats

CapRest ==
    UNCHANGED <<admissions, CONFIG, now, ticks, rateLimitMap, files, arrived,
                winCalls>>

\* captureScreenshot throws into the handler's catch block: stats.errors++,
\* status 500 (failedAt is the place captureScreenshot was at)
CapThrow(f) ==
    /\ req' = NoReq
    /\ stats' = Bump("errors")
    /\ resp' = Resp("screenshot", 500, f.of.cache, f.of.filename, FALSE,
                    NoBytes, FALSE, f.at, <<>>)
    /\ inflight' = End(f)

\* the handler calls captureScreenshot, which calls getBrowser: with no
\* browser yet, puppeteer.launch is called and awaited; else the browser is
\* returned
CapCall(r, waitFor, delay) ==
    /\ IsShot(r, "render")
    /\ LET launch == browser = NoBrowser
           f == [kind |-> "capture", of |-> r,
                 at |-> IF launch THEN "launch" ELSE "getBrowser",
                 b |-> browser,
                 page |-> 0, waitFor |-> waitFor, delay |-> delay,
                 error |-> FALSE, raw |-> 0]
       IN  CapResume(r, f)
    /\ UNCHANGED chromium
    /\ CapRest

\* browser = await puppeteer.launch(...); return browser
CapLaunched(f) ==
    /\ IsCap(f, "launch")
    /\ launches' = launches + 1
    /\ browser' = launches + 1
    /\ CapResume(f, [f EXCEPT !.at = "getBrowser", !.b = launches + 1])
    /\ UNCHANGED pages
    /\ CapRest

\* puppeteer.launch rejects: getBrowser and captureScreenshot throw
CapLaunchFail(f) ==
    /\ IsCap(f, "launch")
    /\ CapThrow(f)
    /\ UNCHANGED chromium
    /\ CapRest

\* const browser = await getBrowser() resumes; browser.newPage() is called
CapNewPage(f) ==
    /\ IsCap(f, "getBrowser")
    /\ CapResume(f, [f EXCEPT !.at = "newPage"])
    /\ UNCHANGED chromium
    /\ CapRest

\* the number of a new page
NewPageId == CHOOSE n \in 1..(Cardinality(pages) + 1) : n \notin pages

\* const page = await browser.newPage() resumes: the page is open, the try
\* block starts
CapPageOpened(f) ==
    /\ IsCap(f, "newPage")
    /\ pages' = pages \cup {NewPageId}
    /\ CapResume(f, [f EXCEPT !.at = "setup", !.page = NewPageId])
    /\ UNCHANGED <<browser, launches>>
    /\ CapRest

\* browser.newPage() rejects, before the try block
CapNewPageFail(f) ==
    /\ IsCap(f, "newPage")
    /\ CapThrow(f)
    /\ UNCHANGED chromium
    /\ CapRest

\* the page is configured; page.goto is called
CapSetupOk(f) ==
    /\ IsCap(f, "setup")
    /\ CapResume(f, [f EXCEPT !.at = "goto"])
    /\ UNCHANGED chromium
    /\ CapRest

\* if (delay > 0) await new Promise(setTimeout); then extractMetadata
AfterWaitFor(f) == IF f.delay > 0 THEN "delay" ELSE "screenshot"

\* if (waitFor) await page.waitForSelector(waitFor, { timeout: 10000 })
AfterGoto(f) == IF f.waitFor # "" THEN "waitFor" ELSE AfterWaitFor(f)

\* page.goto resolves
CapGotoOk(f) ==
    /\ IsCap(f, "goto")
    /\ CapResume(f, [f EXCEPT !.at = AfterGoto(f)])
    /\ UNCHANGED chromium
    /\ CapRest

\* an awaited call of the try block rejects (page.goto also when its timeout
\* of CONFIG.SCREENSHOT_TIMEOUT passes): the finally block calls page.close
CapBodyFail(f, at) ==
    /\ IsCap(f, at)
    /\ CapResume(f, [f EXCEPT !.at = "close", !.error = TRUE])
    /\ UNCHANGED chromium
    /\ CapRest

\* page.waitForSelector resolves
CapWaitForOk(f) ==
    /\ IsCap(f, "waitFor")
    /\ CapResume(f, [f EXCEPT !.at = AfterWaitFor(f)])
    /\ UNCHANGED chromium
    /\ CapRest

\* Faulty variant of SelectorTimeout: the rejection leaves the try block.
SelectorTimeoutFatal(f) == [f EXCEPT !.at = "close", !.error = TRUE]

\* catch { // Continue if selector not found }
SelectorTimeout(f) == [f EXCEPT !.at = AfterWaitFor(f)]

\* page.waitForSelector rejects after its timeout of 10 s
CapWaitForTimeout(f) ==
    /\ IsCap(f, "waitFor")
    /\ CapResume(f, SelectorTimeout(f))
    /\ UNCHANGED chromium
    /\ CapRest

\* the timer of the delay fires
CapDelayDone(f) ==
    /\ IsCap(f, "delay")
    /\ CapResume(f, [f EXCEPT !.at = "screenshot"])
    /\ UNCHANGED chromium
    /\ CapRest

\* extractMetadata and page.screenshot resolve; the return value is kept and
\* the finally block calls page.close
CapScreenshotOk(f, raw) ==
    /\ IsCap(f, "screenshot")
    /\ CapResume(f, [f EXCEPT !.at = "close", !.raw = raw])
    /\ UNCHANGED chromium
    /\ CapRest

\* Faulty variant of ClosePage: the page stays open.
ClosePageNever(ps, page) == ps

\* await page.close()
ClosePage(ps, page) == ps \ {page}

\* page.close resolves: captureScreenshot returns to the handler, which goes
\* on to processImage, or throws what the try block threw
CapClosed(f) ==
    /\ IsCap(f, "close")
    /\ pages' = ClosePage(pages, f.page)
    /\ IF f.error
         THEN CapThrow(f)
         ELSE CapResume(f, [f.of EXCEPT !.pc = "encode", !.raw = f.raw])
    /\ UNCHANGED <<browser, launches>>
    /\ CapRest

\* the waitFor and delay parameters of the requests: neither, or both
CapOptions ==
    {[waitFor |-> "", delay |-> 0], [waitFor |-> "#main", delay |-> 500]}

InitCapture ==
    InitWith({c \in ConfigsWith({1}) : ~c.ENABLE_RATE_LIMIT /\ c.S3_ENABLED})

\* a step of a handler or of a capture in flight
CapContinue ==
    \/ \E r \in Suspended, o \in CapOptions : CapCall(r, o.waitFor, o.delay)
    \/ \E f \in Suspended : CapLaunched(f)
    \/ \E f \in Suspended : CapLaunchFail(f)
    \/ \E f \in Suspended : CapNewPage(f)
    \/ \E f \in Suspended : CapPageOpened(f)
    \/ \E f \in Suspended : CapNewPageFail(f)
    \/ \E f \in Suspended : CapSetupOk(f)
    \/ \E f \in Suspended : CapGotoOk(f)
    \/ \E f \in Suspended, at \in {"setup", "goto", "screenshot"} :
         CapBodyFail(f, at)
    \/ \E f \in Suspended : CapWaitForOk(f)
    \/ \E f \in Suspended : CapWaitForTimeout(f)
    \/ \E f \in Suspended : CapDelayDone(f)
    \/ \E f \in Suspended, raw \in {1} : CapScreenshotOk(f, raw)
    \/ \E f \in Suspended : CapClosed(f)
    \/ \E r \in Suspended : ShotRead(r)
    \/ \E r \in Suspended : ShotEncodeOk(r)
    \/ \E r \in Suspended : ShotEncodeFail(r)
    \/ \E r \in Suspended : ShotWriteOk(r)
    \/ \E r \in Suspended : ShotUploadOk(r)
    \/ \E r \in Suspended : ShotUploadFail(r)

CapArrive ==
    \E up \in BOOLEAN :
        /\ arrived < MaxCapReqs
        /\ ScreenshotArrive("ip1", "a", DefaultQuery, "default", up)
        /\ UNCHANGED admissions

NextCapture == CapArrive \/ CapContinue

SpecCapture == InitCapture /\ [][NextCapture]_vars

\* the requests of this specification all ask for the upload, which is the
\* longest way through the handler
LiveArrive ==
    \E up \in {TRUE} :
        /\ arrived < MaxLiveReqs
        /\ ScreenshotArrive("ip1", "a", DefaultQuery, "default", up)
        /\ UNCHANGED admissions

NextLive == LiveArrive \/ CapContinue

\* Every awaited call settles (it resolves, rejects or times out), and the
\* event loop then resumes the code that awaits it.
LiveCapture == InitCapture /\ [][NextLive]_vars /\ WF_vars(CapContinue)

(***************************************************************************)
(* The sweep alone: cleanupOldFiles applied to every directory of up to    *)
(* MaxSweepFiles files, of sizes around the storage budget and of ages     *)
(* around the maximal age.                                                 *)
(***************************************************************************)
SweepNames ==
    {getImageFilename("a", 320 + i, 630, FALSE, "webp", FALSE) :
        i \in 1..MaxSweepFiles}

\* 4 GiB and 6 GiB: two files can fill the budget exactly or exceed it
SweepSizes == {4 * KiBPerGiB, 6 * KiBPerGiB}

\* at SweepNow a file of mtime 1 is too old, of mtime 2 has exactly the
\* maximal age, of mtime 3 is younger
SweepNow == MAX_FILE_AGE_DAYS * DayMs + 2

SweepMtimes == 1..3

SweepDirs ==
    UNION {[names ->
              {[bytes |-> [raw |-> size, format |-> "webp", quality |-> 80],
                mtime |-> m] : size \in SweepSizes, m \in SweepMtimes}] :
           names \in SUBSET SweepNames}

InitSweep ==
    /\ CONFIG \in {c \in ConfigsWith({1}) :
                     c.AUTO_CLEANUP_ENABLED /\ ~c.ENABLE_RATE_LIMIT}
    /\ now = SweepNow
    /\ ticks = 0
    /\ rateLimitMap = [c \in Clients |-> NoLimit]
    /\ stats = [totalRequests |-> 0, cacheHits |-> 0, cacheMisses |-> 0,
                errors |-> 0, uploadedToS3 |-> 0]
    /\ files \in SweepDirs
    /\ inflight = EmptyBag
    /\ arrived = 0
    /\ req = NoReq
    /\ resp = NoResp
    /\ winCalls = [c \in Clients |-> 0]
    /\ browser = NoBrowser
    /\ launches = 0
    /\ pages = {}
    /\ admissions = NoAdmissions

NextSweep == Sweep

SpecSweep == InitSweep /\ [][NextSweep]_vars

(***************************************************************************)
(* validateScreenshotParams alone, called with values below, at and above  *)
(* the ends of every range, with 0 and with negative numbers.              *)
(***************************************************************************)
ParamInputs ==
    [width : {-1, 0, 319, 320, 3840, 3841},
     height : {0, 240, 2161},
     delay : {-1, 0, 10000, 10001},
     quality : {-5, 0, 1, 100, 101},
     format : {"webp", "jpg", "gif"}]

\* a call of the function: the value it returns is kept in resp.results
ValidateParams(p) ==
    /\ req' = [NoReq EXCEPT !.kind = "validate", !.p = p]
    /\ resp' = [NoResp EXCEPT !.kind = "validate",
                              !.results = <<validateScreenshotParams(p)>>]
    /\ UNCHANGED <<chromium, admissions>>
    /\ UNCHANGED <<CONFIG, now, ticks, rateLimitMap, stats, files, inflight,
                   arrived, winCalls>>

InitParams ==
    InitWith({c \in ConfigsWith({1}) : ~c.ENABLE_RATE_LIMIT /\ ~c.S3_ENABLED})

NextParams == \E p \in ParamInputs : ValidateParams(p)

SpecParams == InitParams /\ [][NextParams]_vars

(***************************************************************************)
(* The cache key: screenshot requests that differ in every parameter, from *)
(* two clients and at different times; the handlers stay suspended, so     *)
(* that the keys of earlier requests can be compared with a new one.       *)
(***************************************************************************)
\* the parameters that are not part of the key, in two variants
KeyOthers ==
    {[quality |-> 80, delay |-> 0, waitFor |-> "", userAgent |-> "", crop |-> ""],
     [quality |-> 50, delay |-> 500, waitFor |-> "#main", userAgent |-> "bot",
      crop |-> "box"]}

\* width 100 is raised to 320 by the parsing
KeyQueries ==
    {[DefaultQuery EXCEPT !.width = w, !.format = f, !.quality = o.quality,
                          !.delay = o.delay, !.waitFor = o.waitFor,
                          !.userAgent = o.userAgent, !.crop = o.crop] :
        w \in {100, 320, 1200}, f \in {"webp", "png"}, o \in KeyOthers}

KeyCallers ==
    {[ip |-> "ip1", cache |-> "default"], [ip |-> "ip2", cache |-> "refresh"],
     [ip |-> "ip1", cache |-> "only"]}

InitKey == InitWith(ConfigsWith({MaxKeyReqs}))

NextKey ==
    \/ \E d \in {1} : ticks < MaxKeyTicks /\ Tick(d)
    \/ \E c \in KeyCallers, q \in KeyQueries :
         /\ arrived < MaxKeyReqs
         /\ ScreenshotArrive(c.ip, "a", q, c.cache, FALSE)
         /\ UNCHANGED admissions

SpecKey == InitKey /\ [][NextKey]_vars

(***************************************************************************)
(* isUrlSafe alone, called once with each URL string of UrlStrings: hosts  *)
(* of every blocked class and around its ends, with and without a blocked  *)
(* port, credentials, a suspicious token, a traversal segment and an       *)
(* excessive length, so that URLs failing several checks are among them.   *)
(***************************************************************************)
UrlHosts ==
    {[kind |-> "name", host |-> h, addr |-> <<>>] :
        h \in {<<"example", "com">>, <<"localhost">>, <<"LOCALHOST">>,
               <<"Metadata", "google", "internal">>}}
    \cup {[kind |-> "ipv4", host |-> <<>>, addr |-> h] :
        h \in {<<127, 0, 0, 1>>, <<127, 1>>, <<0, 0, 0, 0>>, <<10, 1, 2, 3>>,
               <<172, 15, 0, 1>>, <<172, 16, 0, 1>>, <<172, 31, 255, 1>>,
               <<172, 32, 0, 1>>, <<192, 168, 1, 1>>, <<192, 169, 1, 1>>,
               <<169, 254, 169, 254>>, <<169, 254, 1, 1>>, <<8, 8, 8, 8>>}}
    \* ::1, fc00::1, fd12::1, fe80::1, febf::1 and 2001:db8::1
    \cup {[kind |-> "ipv6", host |-> <<>>, addr |-> h] :
        h \in {<<-1, 1>>, <<64512, -1, 1>>, <<64786, -1, 1>>, <<65152, -1, 1>>,
               <<65215, -1, 1>>, <<8193, 3512, -1, 1>>}}

UrlString(scheme, h, port, cred, path, query, long, longHost) ==
    [scheme |-> scheme, kind |-> h.kind, host |-> h.host, addr |-> h.addr,
     port |-> port,
     user |-> cred[1], pass |-> cred[2], path |-> path, query |-> query,
     long |-> long, longHost |-> longHost]

NoHost == [kind |-> "none", host |-> <<>>, addr |-> <<>>]

UrlStrings ==
    {UrlString(scheme, h, port, cred, path, query, long, longHost) :
        scheme \in {"http:", "https:"}, h \in UrlHosts,
        port \in {"", "22", "8080"}, cred \in {<<"", "">>, <<"user", "pass">>},
        path \in {<<>>, <<"a..b">>, <<"..", "etc">>}, query \in {"", "data:"},
        long \in BOOLEAN, longHost \in {FALSE}}
    \cup {UrlString("https:", h, "", <<"", "">>, <<>>, "", FALSE, TRUE) :
             h \in UrlHosts}
    \cup {UrlString(scheme, NoHost, "", <<"", "">>, path, "", FALSE, FALSE) :
             scheme \in {"", "http:", "javascript:", "JavaScript:", "file:"},
             path \in {<<"not a url">>, <<"etc", "passwd">>}}
    \cup {UrlString("ftp:", h, "", <<"", "">>, <<>>, "", FALSE, FALSE) :
             h \in UrlHosts}

InitUrl ==
    /\ CONFIG \in {c \in ConfigsWith({1}) : ~c.ENABLE_RATE_LIMIT /\ ~c.S3_ENABLED}
    /\ now = 0
    /\ ticks = 0
    /\ rateLimitMap = [c \in Clients |-> NoLimit]
    /\ stats = [totalRequests |-> 0, cacheHits |-> 0, cacheMisses |-> 0,
                errors |-> 0, uploadedToS3 |-> 0]
    /\ files = EmptyDir
    /\ inflight = EmptyBag
    /\ arrived = 0
    /\ req \in {[NoReq EXCEPT !.kind = "isUrlSafe", !.p = s] : s \in UrlStrings}
    /\ resp = NoResp
    /\ winCalls = [c \in Clients |-> 0]
    /\ browser = NoBrowser
    /\ launches = 0
    /\ pages = {}
    /\ admissions = NoAdmissions

\* the call isUrlSafe(urlString): the value it returns is kept in
\* resp.results
IsUrlSafeCall ==
    /\ req.kind = "isUrlSafe"
    /\ resp = NoResp
    /\ resp' = [NoResp EXCEPT !.kind = "isUrlSafe",
                              !.results = <<isUrlSafe(NewURL(req.p))>>]
    /\ UNCHANGED <<chromium, admissions>>
    /\ UNCHANGED <<CONFIG, now, ticks, rateLimitMap, stats, files, inflight,
                   arrived, winCalls, req>>

NextUrl == IsUrlSafeCall

SpecUrl == InitUrl /\ [][NextUrl]_vars

(***************************************************************************)
(* Properties.  The tasks in flight, seen one by one: a screenshot handler *)
(* is one task, a batch is one task per item; a batch item is treated as   *)
(* the default cache directive treats a screenshot request.                *)
(***************************************************************************)
TaskViews(r) ==
    IF r.kind = "batch"
        THEN {[filename |-> r.items[i].filename, pc |-> r.items[i].pc,
               buf |-> r.items[i].buf, cache |-> "default", item |-> i] :
                 i \in 1..Len(r.items)}
        ELSE {[filename |-> r.filename, pc |-> r.pc, buf |-> r.buf,
               cache |-> r.cache, item |-> 0]}

TaskViewsIn(bag) ==
    UNION {{[t |-> t, of |-> r, copy |-> k] :
               t \in TaskViews(r), k \in 1..CopiesIn(r, bag)} :
           r \in BagToSet(bag)}

CapturePcs == {"render", "encode", "write"}

Capturing(f) ==
    {x \in TaskViewsIn(inflight) :
        x.t.filename = f /\ x.t.pc \in CapturePcs /\ x.t.cache = "default"}

FailedItems(bag) ==
    {x \in TaskViewsIn(bag) : x.of.kind = "batch" /\ x.t.pc = "failed"}

\* the handler record r took a step that ended or moved it
Stepped(r) == CopiesIn(r, inflight') < CopiesIn(r, inflight)

\* the handler record r is new in the next state
Started(r) == CopiesIn(r, inflight') > CopiesIn(r, inflight)

StartsRender(r) == \E t \in TaskViews(r) : t.pc = "render"

\* C1: for one fingerprint there is never more than one capture (render,
\* encode, write) in progress on behalf of default-mode screenshot requests
\* and batch items, so that concurrent misses of one fingerprint render once.
C1_RendersOncePerFingerprint ==
    \A u \in UrlIds : Cardinality(Capturing(BatchFilename(u))) <= 1

\* C2: a request that starts a render was, in the state it arrived in,
\* within its client's rate limit and counted by the limiter, and every URL
\* it renders passed isUrlSafe; on the screenshot path and on the batch path.
C2_GatesBeforeRender ==
    [][(/\ req'.kind # "none"
        /\ \E r \in BagToSet(inflight') : Started(r) /\ StartsRender(r))
       => /\ \/ ~CONFIG.ENABLE_RATE_LIMIT
             \/ LET pre == rateLimitMap[req'.ip]
                    post == rateLimitMap'[req'.ip]
                IN  IF pre = NoLimit \/ now > pre.resetAt
                        THEN post.count = 1
                        ELSE /\ pre.count < CONFIG.MAX_REQUESTS_PER_IP
                             /\ post.count = pre.count + 1
          /\ req'.kind = "screenshot" =>
                req'.url # NoUrl /\ isUrlSafe(URL(req'.url)).safe
          /\ req'.kind = "batch" =>
                \A i \in 1..Len(req'.urls) : isUrlSafe(URL(req'.urls[i])).safe
      ]_vars

\* C3: a cache=only screenshot request that reaches the existence check and
\* finds no entry for its fingerprint is answered 404 at once: no handler is
\* left in flight (no render), and the store and the miss, hit and upload
\* counters are as before.
C3_OnlyMissIs404 ==
    [][(/\ req'.kind = "screenshot"
        /\ req'.cache = "only"
        /\ req'.filename # NoFilename
        /\ ~existsSync(files, req'.filename))
       => /\ resp'.kind = "screenshot"
          /\ resp'.status = 404
          /\ inflight' = inflight
          /\ files' = files
          /\ stats'.cacheMisses = stats.cacheMisses
          /\ stats'.cacheHits = stats.cacheHits
          /\ stats'.uploadedToS3 = stats.uploadedToS3
      ]_vars

C3_Witness ==
    /\ req.kind = "screenshot"
    /\ req.cache = "only"
    /\ req.filename # NoFilename
    /\ ~existsSync(files, req.filename)
    /\ resp.status = 404

\* C4: a cache=refresh screenshot request that passes the gates goes to the
\* render whether or not its fingerprint has an entry, and counts as a miss;
\* when its write step runs, the entry of its fingerprint holds the bytes it
\* has just encoded.
C4_RefreshRendersAndOverwrites ==
    [][/\ (/\ req'.kind = "screenshot"
           /\ req'.cache = "refresh"
           /\ req'.filename # NoFilename)
          => /\ \E r \in BagToSet(inflight') :
                   /\ Started(r)
                   /\ r.kind = "screenshot"
                   /\ r.cache = "refresh"
                   /\ r.filename = req'.filename
                   /\ r.pc = "render"
             /\ resp' = NoResp
             /\ stats'.cacheHits = stats.cacheHits
             /\ stats'.cacheMisses = stats.cacheMisses + 1
       /\ \A r \in Suspended :
            (/\ r.kind = "screenshot"
             /\ r.cache = "refresh"
             /\ r.pc = "write"
             /\ Stepped(r))
            => /\ r.buf # NoBytes
               /\ existsSync(files', r.filename)
               /\ files'[r.filename].bytes = r.buf
      ]_vars

\* a refresh request has rendered and encoded although an entry exists, and
\* is about to replace bytes that differ from its own
C4_Witness ==
    \E r \in Suspended :
        /\ r.kind = "screenshot"
        /\ r.cache = "refresh"
        /\ r.pc = "write"
        /\ existsSync(files, r.filename)
        /\ files[r.filename].bytes # r.buf

\* C5: a cache=default or cache=only screenshot request whose fingerprint
\* has an entry at the existence check is a cache hit: it is counted as a
\* hit and goes to the read, not to the render; its read step answers 200
\* with the stored bytes, flagged cached; and neither step changes the store
\* or counts an upload.
C5_HitServesStoredBytes ==
    [][/\ (/\ req'.kind = "screenshot"
           /\ req'.cache \in {"default", "only"}
           /\ req'.filename # NoFilename
           /\ existsSync(files, req'.filename))
          => /\ \E r \in BagToSet(inflight') :
                   /\ Started(r)
                   /\ r.kind = "screenshot"
                   /\ r.filename = req'.filename
                   /\ r.pc = "read"
             /\ stats'.cacheHits = stats.cacheHits + 1
             /\ stats'.cacheMisses = stats.cacheMisses
             /\ files' = files
       /\ \A r \in Suspended :
            (r.kind = "screenshot" /\ r.pc = "read" /\ Stepped(r))
            => /\ resp'.status = 200
               /\ resp'.cached
               /\ existsSync(files, r.filename)
               /\ resp'.body = files[r.filename].bytes
               /\ files' = files
               /\ stats'.uploadedToS3 = stats.uploadedToS3
      ]_vars

\* the limiter's decision for the request of the step, apart from the code:
\* is the client's window live, and was the request admitted
WindowLive(ip) == rateLimitMap[ip] # NoLimit /\ now <= rateLimitMap[ip].resetAt

\* C6: with rate limiting on and a maximum N >= 1, the k-th call of a client
\* in a live window is admitted exactly when k <= N; a call with no window or
\* after resetAt is admitted and sets the window to count 1 and
\* resetAt = now + one hour; an admitted call in a live window leaves resetAt
\* as it is.
C6_AdmitsFirstNPerWindow ==
    [][(/\ req'.kind = "screenshot"
        /\ CONFIG.ENABLE_RATE_LIMIT
        /\ CONFIG.MAX_REQUESTS_PER_IP >= 1)
       => LET ip == req'.ip
              admitted == resp'.status # 429
          IN  IF WindowLive(ip)
                  THEN /\ admitted <=> winCalls'[ip] <= CONFIG.MAX_REQUESTS_PER_IP
                       /\ rateLimitMap'[ip].resetAt = rateLimitMap[ip].resetAt
                  ELSE /\ admitted
                       /\ winCalls'[ip] = 1
                       /\ rateLimitMap'[ip] =
                            [count |-> 1, resetAt |-> now + WindowMs]
      ]_vars

\* the call after the N-th of a window is rejected, for the largest N
C6_Witness ==
    /\ req.kind = "screenshot"
    /\ CONFIG.ENABLE_RATE_LIMIT
    /\ CONFIG.MAX_REQUESTS_PER_IP = MaxN
    /\ resp.status = 429
    /\ winCalls[req.ip] = MaxN + 1
    /\ rateLimitMap[req.ip].count = MaxN

\* C7: the count of a client's window never exceeds the configured maximum,
\* for every maximum from 0 up.
C7_CountWithinMaximum ==
    \A c \in Clients : rateLimitMap[c].count <= CONFIG.MAX_REQUESTS_PER_IP

\* C8: a rejected call (429) leaves the whole table as it was, the count and
\* resetAt of every client included; with rate limiting off no call is
\* rejected and no step changes the table.
C8_RejectLeavesTable ==
    [][/\ (req'.kind = "screenshot" /\ resp'.status = 429)
          => /\ rateLimitMap' = rateLimitMap
             /\ CONFIG.ENABLE_RATE_LIMIT
       /\ ~CONFIG.ENABLE_RATE_LIMIT
          => /\ rateLimitMap' = rateLimitMap
             /\ resp'.status # 429
      ]_vars

\* a call is rejected while another client has a window of its own
C8_Witness ==
    /\ req.kind = "screenshot"
    /\ resp.status = 429
    /\ rateLimitMap[req.ip].count = CONFIG.MAX_REQUESTS_PER_IP
    /\ \E c \in Clients : c # req.ip /\ rateLimitMap[c] # NoLimit

\* C9: a screenshot request that fails in the render or in the encode, and a
\* batch item that fails, leave the store as it was; and an entry is new or
\* changed only by the write step of a task that holds its encoded bytes,
\* which become the entry.
C9_FailureLeavesStore ==
    [][/\ (resp'.status = 500 /\ resp'.failedAt \in {"render", "encode"})
          => files' = files
       /\ Cardinality(FailedItems(inflight')) > Cardinality(FailedItems(inflight))
          => files' = files
       /\ \A f \in DOMAIN files' :
            (~existsSync(files, f) \/ files'[f] # files[f])
            => \E x \in TaskViewsIn(inflight) :
                 /\ x.t.pc = "write"
                 /\ x.t.filename = f
                 /\ x.t.buf # NoBytes
                 /\ Stepped(x.of)
                 /\ files'[f].bytes = x.t.buf
      ]_vars

\* a refresh request has failed in the encode and the entry of its
\* fingerprint is still there
C9_Witness ==
    /\ resp.kind = "screenshot"
    /\ resp.status = 500
    /\ resp.failedAt = "encode"
    /\ resp.cache = "refresh"
    /\ existsSync(files, resp.filename)

\* C10: a screenshot request whose render, encode and write succeeded and
\* whose upload to S3 failed is answered 200, without an S3 URL; the failure
\* of the upload does not become a 500.
C10_UploadFailureTolerated ==
    resp.failedAt = "upload" => resp.status = 200 /\ ~resp.s3Url

\* the entries of directory fs that are too old at time t
Expired(fs, t) == {f \in DOMAIN fs : t - fs[f].mtime > MAX_FILE_AGE_DAYS * DayMs}

Budget == MAX_STORAGE_GB * KiBPerGiB

C12_SizeDeletionsOldestFirstMinimal ==
    [][resp'.kind = "sweep"
       => LET removed == DOMAIN files \ DOMAIN files'
              fresh == DOMAIN files \ Expired(files, now)
              forSize == removed \cap fresh
          IN  /\ \A f \in forSize, g \in DOMAIN files' :
                   files[f].mtime <= files[g].mtime
              /\ forSize # {} =>
                   \E d \in forSize :
                       /\ \A f \in forSize : files[f].mtime <= files[d].mtime
                       /\ SumSizes(files, DOMAIN files' \cup {d}) > Budget
              /\ SumSizes(files', DOMAIN files') <= Budget
              /\ SumSizes(files, fresh) <= Budget => forSize = {}
      ]_vars

\* a sweep has deleted an entry that was not too old and has kept another
C12_Witness ==
    /\ resp.kind = "sweep"
    /\ files # EmptyDir
    /\ \E i \in DOMAIN resp.results[1].walked :
         LET file == resp.results[1].walked[i]
         IN  /\ now - file.mtime <= MAX_FILE_AGE_DAYS * DayMs
             /\ ~existsSync(files, file.path)

\* C13: when a sweep has deleted the entry that a request's existence
\* check found, the request's read step does not end in an error: it is not
\* answered 500 and no error is counted (it goes on as a miss, or is answered
\* successfully).
C13_SweepDuringHitTolerated ==
    [][\A r \in Suspended :
          (/\ r.kind = "screenshot"
           /\ r.pc = "read"
           /\ Stepped(r)
           /\ ~existsSync(files, r.filename))
          => /\ resp'.status # 500
             /\ stats'.errors = stats.errors
      ]_vars

\* the six fields of the key, of the request of a step and of a handler
SixOfReq(q) == <<q.url, q.p.width, q.p.height, q.p.dark, q.p.format, q.p.fullPage>>

SixOfHandler(r) == <<r.url, r.width, r.height, r.dark, r.format, r.fullPage>>

\* C14: a screenshot request gets the key of every earlier request (still
\* in flight) that agrees with it on url, width, height, dark, format and
\* fullPage, whatever the quality, delay, wait selector, user agent, crop,
\* cache directive and client of either, and whatever the time and the
\* counters when each arrived.
C14_KeyOfSixFields ==
    [][(req'.kind = "screenshot" /\ req'.filename # NoFilename)
       => \A r \in Suspended :
            (r.kind = "screenshot" /\ SixOfHandler(r) = SixOfReq(req'))
            => r.filename = req'.filename
      ]_vars

\* a request has the key of an earlier one that differs from it in quality,
\* cache directive and client
C14_Witness ==
    /\ req.kind = "screenshot"
    /\ req.filename # NoFilename
    /\ \E r \in Suspended :
         /\ r.kind = "screenshot"
         /\ SixOfHandler(r) = SixOfReq(req)
         /\ r.quality # req.p.quality
         /\ r.cache # req.cache
         /\ r.ip # req.ip
         /\ r.filename = req.filename

C16_OversizedBatchRejected ==
    [][(req'.kind = "batch" /\ Len(req'.urls) > 10)
       => /\ resp'.kind = "batch"
          /\ resp'.status = 400
          /\ inflight' = inflight
          /\ files' = files
      ]_vars

\* a batch of 11 URLs has been rejected while a handler is in flight
C16_Witness ==
    /\ req.kind = "batch"
    /\ Len(req.urls) = 11
    /\ resp.status = 400
    /\ inflight # EmptyBag

\* C17: a batch of 1 to 10 URLs of which exactly one fails is not rejected
\* as a whole: when the one URL is blocked by isUrlSafe the batch is neither
\* refused nor failed on arrival, and the response of a batch is a 200 with
\* one result per URL, failed for the items that failed and successful for
\* all others.
C17_BatchReportsFailurePerItem ==
    [][/\ (/\ req'.kind = "batch"
           /\ Len(req'.urls) \in 1..10
           /\ Cardinality({i \in 1..Len(req'.urls) :
                             ~isUrlSafe(URL(req'.urls[i])).safe}) = 1)
          => resp'.status \notin {400, 403, 500}
       /\ \A r \in Suspended :
            (r.kind = "batch" /\ Stepped(r) /\ resp'.kind = "batch")
            => /\ resp'.status = 200
               /\ Len(resp'.results) = Len(r.items)
               /\ \A i \in 1..Len(r.items) :
                    resp'.results[i].success <=> r.items[i].pc # "failed"
      ]_vars

\* C18: a screenshot request that is rejected by isUrlSafe (403) or by
\* validateScreenshotParams (400 with a URL given) leaves the rate-limit
\* table, the usage counters and the store as they were before it arrived.
C18_GateRejectionHasNoEffect ==
    [][(/\ req'.kind = "screenshot"
        /\ req'.url # NoUrl
        /\ resp'.status \in {400, 403})
       => /\ rateLimitMap' = rateLimitMap
          /\ stats' = stats
          /\ files' = files
      ]_vars

\* C19: a screenshot request that is admitted by the limiter and has no URL
\* or a URL that does not parse is answered 400; a 403 is given only for a
\* URL that parses and that isUrlSafe blocks, a 429 only when the client's
\* live window is used up, a 404 only for a cache=only request with no entry.
C19_StatusByCause ==
    [][req'.kind = "screenshot"
       => /\ (/\ resp'.status # 429
              /\ (req'.url = NoUrl \/ ~URL(req'.url).parses))
             => resp'.status = 400
          /\ resp'.status = 403
             => /\ req'.url # NoUrl
                /\ URL(req'.url).parses
                /\ ~isUrlSafe(URL(req'.url)).safe
          /\ resp'.status = 429
             => /\ CONFIG.ENABLE_RATE_LIMIT
                /\ WindowLive(req'.ip)
                /\ rateLimitMap[req'.ip].count >= CONFIG.MAX_REQUESTS_PER_IP
          /\ resp'.status = 404
             => /\ req'.cache = "only"
                /\ ~existsSync(files, req'.filename)
      ]_vars

\* the ranges of the parameters
InRange(p) ==
    /\ p.width >= 320 /\ p.width <= 3840
    /\ p.height >= 240 /\ p.height <= 2160
    /\ p.delay >= 0 /\ p.delay <= 10000
    /\ p.quality >= 1 /\ p.quality <= 100
    /\ p.format \in {"webp", "png", "jpeg", "jpg"}

\* C20: validateScreenshotParams returns valid exactly when width, height,
\* delay, quality and format are all in range, for every integer (0 and
\* negative numbers too), and gives a reason whenever it returns invalid.
C20_ValidExactlyInRange ==
    resp.kind = "validate"
    => /\ resp.results[1].valid <=> InRange(req.p)
       /\ ~resp.results[1].valid => resp.results[1].reason # ""

PrivateReason ==
    "Access to private networks and cloud metadata endpoints is blocked"

HttpUrl(s) == ToLowerCase(s.scheme) \in {"http:", "https:"} /\ s.kind # "none"

\* the address a.b.c.d that the typed IPv4 host denotes
Quad(s) ==
    IF Len(s.addr) = 2 THEN <<s.addr[1], 0, 0, s.addr[2]>> ELSE s.addr

\* the host is in one of the classes the gate has to reject: the IPv4 blocks
\* by their numbers, ::1, fc00::/7 (first piece fc00 to fdff) and fe80::/10
\* (first piece fe80 to febf) by the value of the first piece
PrivateHost(s) ==
    \/ /\ s.kind = "name"
       /\ [i \in 1..Len(s.host) |-> ToLowerCase(s.host[i])]
            \in {<<"localhost">>, <<"metadata", "google", "internal">>}
    \/ /\ s.kind = "ipv4"
       /\ LET q == Quad(s)
          IN  \/ q[1] \in {127, 0, 10}
              \/ q[1] = 172 /\ q[2] \in 16..31
              \/ q[1] = 192 /\ q[2] = 168
              \/ q[1] = 169 /\ q[2] = 254
    \/ /\ s.kind = "ipv6"
       /\ \/ s.addr = <<-1, 1>>
          \/ s.addr[1] \in 64512..65023
          \/ s.addr[1] \in 65152..65215

\* the URL string has nothing but a scheme and a host
PlainUrl(s) ==
    /\ s.port = ""
    /\ s.user = "" /\ s.pass = ""
    /\ s.path = <<>> /\ s.query = ""
    /\ ~s.long /\ ~s.longHost

\* C21: isUrlSafe rejects every http or https URL whose host is localhost,
\* an IPv4 address of 127/8, 0/8, 10/8, 172.16/12, 192.168/16 or 169.254/16,
\* the IPv6 address ::1 or one of fc00::/7 or fe80::/10, or a cloud metadata
\* host; it accepts a URL with a public host and nothing else; and a host
\* 172.x outside 172.16 to 172.31 is not rejected as private.
C21_PrivateHostsRejected ==
    resp.kind = "isUrlSafe" =>
        LET s == req.p
            r == resp.results[1]
        IN  /\ (HttpUrl(s) /\ PrivateHost(s)) => ~r.safe
            /\ (HttpUrl(s) /\ ~PrivateHost(s) /\ PlainUrl(s)) => r.safe
            /\ (HttpUrl(s) /\ s.kind = "ipv4" /\ Quad(s)[1] = 172
                  /\ Quad(s)[2] \notin 16..31)
                 => r.reason # PrivateReason

\* the checks of isUrlSafe on a parsed URL, numbered in the claimed order:
\* scheme, private host, blocked port, credentials, suspicious pattern, path
\* traversal, length
CheckFails(k, url) ==
    CASE k = 1 -> url.protocol \notin {"http:", "https:"}
      [] k = 2 -> HostBlocked(url.sep, url.hostname)
      [] k = 3 -> url.port \in BlockedPorts
      [] k = 4 -> url.username # "" \/ url.password # ""
      [] k = 5 -> \E i \in DOMAIN url.raw : url.raw[i] \in SuspiciousTokens
      [] k = 6 -> \E i \in DOMAIN url.pathname : url.pathname[i] \in TraversalSegments
      [] OTHER -> url.hostlen > 253 \/ url.length > 2048

CheckReason(k) ==
    CASE k = 1 -> "Only HTTP and HTTPS protocols allowed"
      [] k = 2 -> PrivateReason
      [] k = 3 -> "Access to sensitive ports is blocked"
      [] k = 4 -> "URLs with credentials are not allowed"
      [] k = 5 -> "Suspicious URL scheme detected"
      [] k = 6 -> "Path traversal detected"
      [] OTHER -> "URL too long"

FailedChecks(url) == {k \in 1..7 : CheckFails(k, url)}

\* C22: for a URL string that parses, isUrlSafe answers safe exactly when
\* none of its seven checks fails, and else gives the reason of the first
\* failing check in the order scheme, private host, blocked port,
\* credentials, suspicious pattern, path traversal, length.
C22_FirstFailingCheckReported ==
    (resp.kind = "isUrlSafe" /\ NewURL(req.p).parses) =>
        LET failed == FailedChecks(NewURL(req.p))
            r == resp.results[1]
        IN  /\ r.safe <=> failed = {}
            /\ failed # {} =>
                 \E k \in failed :
                    /\ \A j \in failed : k <= j
                    /\ r.reason = CheckReason(k)

\* a URL that fails a later check and three or more checks in all
C22_Witness ==
    /\ resp.kind = "isUrlSafe"
    /\ NewURL(req.p).parses
    /\ Cardinality(FailedChecks(NewURL(req.p))) >= 3
    /\ 7 \in FailedChecks(NewURL(req.p))
    /\ ~resp.results[1].safe

\* the paths of the array a sweep walked
WalkedPaths(result) == {result.walked[i].path : i \in DOMAIN result.walked}

\* C23: after a sweep, no entry that the sweep enumerated and left in place
\* is older than the maximal age, the total size of the entries it left in
\* place is within the storage budget, and the sweep changes no entry it
\* left in place and no entry outside its enumeration.
C23_SweepLeavesFreshWithinBudget ==
    [][resp'.kind = "sweep"
       => LET walked == WalkedPaths(resp'.results[1])
              left == walked \cap DOMAIN files'
          IN  /\ \A f \in left : now - files'[f].mtime <= MAX_FILE_AGE_DAYS * DayMs
              /\ SumSizes(files', left) <= Budget
              /\ \A f \in left : files'[f] = files[f]
              /\ \A f \in DOMAIN files \ walked :
                   existsSync(files', f) /\ files'[f] = files[f]
              /\ DOMAIN files' \subseteq DOMAIN files
      ]_vars

\* a sweep has deleted an entry and has left in place entries that fill the
\* budget exactly
C23_Witness ==
    /\ resp.kind = "sweep"
    /\ resp.results[1].deleted > 0
    /\ Cardinality(DOMAIN files) >= 2
    /\ SumSizes(files, DOMAIN files) = Budget

\* a /api/screenshot handler has ended in the catch block after its render
\* or its encode failed
ShotFailed ==
    /\ resp'.kind = "screenshot"
    /\ resp'.status = 500
    /\ resp'.failedAt \in {"render", "encode"}

\* the render or the encode of a batch item has failed in this step
ItemFailed ==
    Cardinality(FailedItems(inflight')) > Cardinality(FailedItems(inflight))

\* C24: a render or encode failure of a /api/screenshot request ends that
\* one handler with an error response and leaves the other handlers as they
\* were, a render or encode failure of a batch item fails that one item, and
\* either adds exactly one to the errors counter; a request answered 400,
\* 403, 404 or 429 leaves the errors counter as it was.
C24_FailureCountedOnce ==
    [][/\ ShotFailed =>
            /\ \E r \in Suspended : r.kind = "screenshot" /\ inflight' = End(r)
            /\ stats'.errors = stats.errors + 1
       /\ ItemFailed =>
            /\ \E r \in Suspended, i \in 1..MaxInFlight, pc \in {"render", "encode"} :
                   /\ IsItem(r, i, pc)
                   /\ inflight' = Resume(r, [r EXCEPT !.items[i].pc = "failed",
                                                      !.items[i].raw = 0,
                                                      !.items[i].buf = NoBytes])
            /\ stats'.errors = stats.errors + 1
       /\ resp'.status \in {400, 403, 404, 429} => stats'.errors = stats.errors
      ]_vars

\* C28: cacheHits + cacheMisses never exceeds totalRequests; no step lowers
\* a counter; and the step that receives a screenshot request adds exactly
\* one to totalRequests and at most one to cacheHits and cacheMisses
\* together, while no other step changes any of the three.
C28_CountersConsistent ==
    /\ [](stats.cacheHits + stats.cacheMisses <= stats.totalRequests)
    /\ [][/\ \A c \in DOMAIN stats : stats'[c] >= stats[c]
          /\ LET lookups == stats.cacheHits + stats.cacheMisses
                 lookupsAfter == stats'.cacheHits + stats'.cacheMisses
             IN  IF req'.kind = "screenshot"
                     THEN /\ stats'.totalRequests = stats.totalRequests + 1
                          /\ lookupsAfter \in {lookups, lookups + 1}
                     ELSE /\ stats'.totalRequests = stats.totalRequests
                          /\ stats'.cacheHits = stats.cacheHits
                          /\ stats'.cacheMisses = stats.cacheMisses
         ]_vars

\* two screenshot requests have been counted, one as a miss and one as a
\* hit, and the handler of the hit is in flight
C28_Witness ==
    /\ stats.totalRequests = 2
    /\ stats.cacheHits = 1
    /\ stats.cacheMisses = 1
    /\ \E r \in Suspended : r.kind = "screenshot" /\ r.pc = "read"

\* the admissions of ip at a time in the interval from t to t + one window
AdmittedWithin(ip, t) ==
    Cardinality({k \in DOMAIN admissions[ip] :
                    t <= admissions[ip][k] /\ admissions[ip][k] <= t + WindowMs})

\* C29: with rate limiting on and a maximum N >= 1, a client has at most 2N
\* admissions in any interval of the length of one window.  (An interval
\* that holds an admission can be moved to start at its first one without
\* losing any, so the intervals that start at an admission are enough.)
C29_AtMostTwoWindowsPerInterval ==
    (CONFIG.ENABLE_RATE_LIMIT /\ CONFIG.MAX_REQUESTS_PER_IP >= 1) =>
        \A ip \in Clients : \A k \in DOMAIN admissions[ip] :
            AdmittedWithin(ip, admissions[ip][k]) <= 2 * CONFIG.MAX_REQUESTS_PER_IP

\* an interval of one window holds admissions of two windows of the client,
\* more than the maximum of one window
C29_Witness ==
    /\ CONFIG.ENABLE_RATE_LIMIT
    /\ CONFIG.MAX_REQUESTS_PER_IP = MaxN
    /\ \E ip \in Clients : \E k \in DOMAIN admissions[ip] :
          AdmittedWithin(ip, admissions[ip][k]) > CONFIG.MAX_REQUESTS_PER_IP

Captures == {f \in Suspended : f.kind = "capture"}

\* the places of captureScreenshot at which its page is open
PageOpenAt ==
    {"setup", "goto", "waitFor", "delay", "screenshot", "close"}

\* C25: every handler in flight ends (a handler ends only with a response);
\* a capture whose try block has thrown, as page.goto does at its timeout,
\* is answered with the error response; and a selector wait that times out
\* or resolves leaves the capture going, without an error.
C25_EveryRequestAnswered ==
    /\ (inflight # EmptyBag) ~> (inflight = EmptyBag)
    /\ (\E f \in Captures : f.error) ~> (resp.status = 500)
    /\ [][/\ \A f \in Captures :
               (f.at = "waitFor" /\ Stepped(f))
               => \E g \in BagToSet(inflight') :
                     /\ Started(g)
                     /\ g = [f EXCEPT !.at = g.at]
                     /\ g.at \in {"delay", "screenshot"}
                     /\ resp' = NoResp
          /\ \A f \in Captures :
               (f.at = "close" /\ f.error /\ Stepped(f))
               => /\ resp'.status = 500
                  /\ inflight' = End(f)
          /\ \A r \in Suspended :
               Stepped(r) /\ ~(\E g \in BagToSet(inflight') : Started(g))
               => resp'.status \in {200, 500}
         ]_vars

\* the requests of the behaviour have all been answered, the last one after
\* render, encode, write and upload
C25_Witness ==
    /\ arrived = MaxLiveReqs
    /\ inflight = EmptyBag
    /\ resp.status = 200
    /\ ~resp.cached
    /\ resp.s3Url

\* C26: a page is open only while the call of captureScreenshot that opened
\* it is in flight, between its newPage and the end of its page.close; so
\* no page is open once a capture has returned or thrown, whatever failed,
\* and none when no capture is in flight.
C26_PagesClosedWithCapture ==
    /\ \A p \in pages :
          \E f \in Captures : f.page = p /\ f.at \in PageOpenAt
    /\ Captures = {} => pages = {}

\* a capture has thrown after its page was opened, no capture is in flight
\* and no page is open
C26_Witness ==
    /\ resp.status = 500
    /\ resp.failedAt = "close"
    /\ Captures = {}
    /\ pages = {}

\* C27: at most one browser instance is ever launched, and the captures in
\* flight that have their browser all have the same one.
C27_SingleBrowserInstance ==
    /\ launches <= 1
    /\ \A f, g \in Captures :
          (f.b # NoBrowser /\ g.b # NoBrowser) => f.b = g.b
====
